---- MODULE Spec2Model ----
(***************************************************************************)
(* A model of the RISC-V interpreter of src/riscv_simulator.py and of the  *)
(* budgeted harness of src/test_runner.py.                                 *)
(*                                                                         *)
(* Text is modelled character by character: a Python str is a sequence of  *)
(* one-character strings, and the string methods the simulator calls       *)
(* (strip, split, upper, replace, isdigit, int) are operators on such      *)
(* sequences, computed as Python computes them.                            *)
(***************************************************************************)
EXTENDS Integers, Sequences, FiniteSets, TLC

(***************************************************************************)
(* Python string methods                                                   *)
(***************************************************************************)

\* The characters str.strip() and str.split() treat as whitespace.
Whitespace == {" ", "\t"}

Digits == <<"0", "1", "2", "3", "4", "5", "6", "7", "8", "9">>

LowerCase == <<"a", "b", "c", "d", "e", "f", "g", "h", "i", "j", "k", "l", "m",
               "n", "o", "p", "q", "r", "s", "t", "u", "v", "w", "x", "y", "z">>

UpperCase == <<"A", "B", "C", "D", "E", "F", "G", "H", "I", "J", "K", "L", "M",
               "N", "O", "P", "Q", "R", "S", "T", "U", "V", "W", "X", "Y", "Z">>

\* s[i..j] of a sequence, empty when j < i.
Slice(s, i, j) == [k \in 1..(j - i + 1) |-> s[i + k - 1]]

\* Positions of s holding a character that is not in the set cs.
Outside(s, cs) == {i \in 1..Len(s) : s[i] \notin cs}

Min(S) == CHOOSE x \in S : \A y \in S : x <= y

Max(S) == CHOOSE x \in S : \A y \in S : x >= y

\* str.strip(chars): drop the characters of cs from both ends.
StripSet(s, cs) ==
    IF Outside(s, cs) = {} THEN <<>>
    ELSE Slice(s, Min(Outside(s, cs)), Max(Outside(s, cs)))

\* str.strip()
Strip(s) == StripSet(s, Whitespace)

\* str.rstrip(chars)
RStripSet(s, cs) ==
    IF Outside(s, cs) = {} THEN <<>> ELSE Slice(s, 1, Max(Outside(s, cs)))

\* c in s
Contains(s, c) == \E i \in 1..Len(s) : s[i] = c

\* str.split(c): the pieces of s between the occurrences of the character c.
RECURSIVE Split(_, _)
Split(s, c) ==
    IF ~Contains(s, c) THEN <<s>>
    ELSE LET i == Min({k \in 1..Len(s) : s[k] = c})
         IN  <<Slice(s, 1, i - 1)>> \o Split(Slice(s, i + 1, Len(s)), c)

\* str.split(c, 1): at most one split, at the first occurrence of c.
SplitOnce(s, c) ==
    IF ~Contains(s, c) THEN <<s>>
    ELSE LET i == Min({k \in 1..Len(s) : s[k] = c})
         IN  <<Slice(s, 1, i - 1), Slice(s, i + 1, Len(s))>>

\* str.upper() of one character.
UpperChar(c) ==
    IF \E i \in 1..26 : LowerCase[i] = c
    THEN UpperCase[CHOOSE i \in 1..26 : LowerCase[i] = c]
    ELSE c

\* str.upper()
Upper(s) == [i \in 1..Len(s) |-> UpperChar(s[i])]

\* str.replace(a, b) for single characters.
Replace(s, a, b) == [i \in 1..Len(s) |-> IF s[i] = a THEN b ELSE s[i]]

\* str.split(): the maximal runs of non-whitespace characters.
RECURSIVE Words(_)
Words(s) ==
    LET t == Outside(s, Whitespace)
    IN  IF t = {} THEN <<>>
        ELSE LET i == Min(t)
                 e == Min({k \in i..Len(s) : k = Len(s) \/ s[k + 1] \in Whitespace})
             IN  <<Slice(s, i, e)>> \o Words(Slice(s, e + 1, Len(s)))

IsDigitChar(c) == \E i \in 1..10 : Digits[i] = c

DigitVal(c) == (CHOOSE i \in 1..10 : Digits[i] = c) - 1

\* str.isdigit(): non-empty and every character a digit.
IsDigit(s) == Len(s) > 0 /\ \A i \in 1..Len(s) : IsDigitChar(s[i])

\* The digits of an int() literal after its sign: digits, single underscores
\* allowed between two digits.
IsIntBody(s) ==
    /\ Len(s) > 0
    /\ \A i \in 1..Len(s) :
          \/ IsDigitChar(s[i])
          \/ /\ s[i] = "_"
             /\ 1 < i /\ i < Len(s)
             /\ IsDigitChar(s[i - 1]) /\ IsDigitChar(s[i + 1])

\* Whether int(s) returns (otherwise it raises ValueError).
IsInt(s) ==
    /\ Len(s) > 0
    /\ IsIntBody(IF s[1] \in {"+", "-"} THEN Tail(s) ELSE s)

RECURSIVE BodyVal(_, _)
BodyVal(s, acc) ==
    IF s = <<>> THEN acc
    ELSE IF Head(s) = "_" THEN BodyVal(Tail(s), acc)
    ELSE BodyVal(Tail(s), 10 * acc + DigitVal(Head(s)))

\* int(s) for a string IsInt accepts.
IntVal(s) ==
    IF s[1] = "-" THEN 0 - BodyVal(Tail(s), 0)
    ELSE IF s[1] = "+" THEN BodyVal(Tail(s), 0)
    ELSE BodyVal(s, 0)

(***************************************************************************)
(* Python containers                                                       *)
(***************************************************************************)

\* {} : the empty dict.
EmptyDict == [k \in {} |-> 0]

\* d[k] = v on a dict.
Put(d, k, v) == [x \in (DOMAIN d) \cup {k} |-> IF x = k THEN v ELSE d[x]]

\* d.get(k, default)
Get(d, k, default) == IF k \in DOMAIN d THEN d[k] ELSE default

NumRegisters == 32

\* A Python list of NumRegisters items accepts the indices -32..31.
ListIndexOK(i) == (0 - NumRegisters) <= i /\ i < NumRegisters

\* The position a list index refers to: negative indices count from the end.
ListIndex(i) == IF i < 0 THEN i + NumRegisters ELSE i

(***************************************************************************)
(* Program text: the opcode mnemonics execute_instruction compares with    *)
(***************************************************************************)

OpADD == <<"A", "D", "D">>
OpSUB == <<"S", "U", "B">>
OpLI == <<"L", "I">>
OpLW == <<"L", "W">>
OpSW == <<"S", "W">>
OpBEQ == <<"B", "E", "Q">>
OpJAL == <<"J", "A", "L">>
OpJ == <<"J">>

(***************************************************************************)
(* RISCVSimulator.load_program                                             *)
(***************************************************************************)

\* LoadLine giving a label on a line of its own a slot.
LoadLineCountsLabel(st, raw) ==
    LET line == Strip(Split(raw, "#")[1])
    IN  IF line = <<>> THEN st
        ELSE IF Contains(line, ":")
        THEN LET sp == SplitOnce(line, ":")
                 label == Strip(sp[1])
                 instruction == Strip(sp[2])
                 st1 == [st EXCEPT
                           !.labels = Put(@, label, st.line_number),
                           !.labels_upper = Put(@, Upper(label), st.line_number)]
             IN  IF instruction # <<>>
                 THEN [st1 EXCEPT
                         !.cleaned_program = Append(@, StripSet(instruction, {"\""})),
                         !.line_number = @ + 1]
                 ELSE [st1 EXCEPT !.line_number = @ + 1]
        ELSE [st EXCEPT
                !.cleaned_program = Append(@, StripSet(line, {"\""})),
                !.line_number = @ + 1]

\* One iteration of the loop over program_text, on the loader's locals and
\* the two label tables: st = [cleaned_program, line_number, labels,
\* labels_upper].
LoadLine(st, raw) ==
    LET line == Strip(Split(raw, "#")[1])
    IN  IF line = <<>> THEN st
        ELSE IF Contains(line, ":")
        THEN LET sp == SplitOnce(line, ":")
                 label == Strip(sp[1])
                 instruction == Strip(sp[2])
                 st1 == [st EXCEPT
                           !.labels = Put(@, label, st.line_number),
                           !.labels_upper = Put(@, Upper(label), st.line_number)]
             IN  IF instruction # <<>>
                 THEN [st1 EXCEPT
                         !.cleaned_program = Append(@, StripSet(instruction, {"\""})),
                         !.line_number = @ + 1]
                 ELSE st1
        ELSE [st EXCEPT
                !.cleaned_program = Append(@, StripSet(line, {"\""})),
                !.line_number = @ + 1]

RECURSIVE LoadLines(_, _)
LoadLines(st, program_text) ==
    IF program_text = <<>> THEN st
    ELSE LoadLines(LoadLine(st, Head(program_text)), Tail(program_text))

\* load_program(program_text) on an instance whose label tables are lbl and
\* lbl_upper: the new program and label tables.
load_program(lbl, lbl_upper, program_text) ==
    LET st == LoadLines([cleaned_program |-> <<>>, line_number |-> 0,
                         labels |-> lbl, labels_upper |-> lbl_upper],
                        program_text)
    IN  [program |-> st.cleaned_program,
         labels |-> st.labels,
         labels_upper |-> st.labels_upper]

(***************************************************************************)
(* RISCVSimulator.lookup_label                                             *)
(***************************************************************************)

\* lookup_label without the case-insensitive table.
lookup_label_exact(lbl, lbl_upper, label) ==
    IF label \in DOMAIN lbl
    THEN [found |-> TRUE, index |-> lbl[label]]
    ELSE [found |-> FALSE, index |-> 0]

\* [found, index]: found = FALSE is the KeyError of line 61.
lookup_label(lbl, lbl_upper, label) ==
    IF label \in DOMAIN lbl
    THEN [found |-> TRUE, index |-> lbl[label]]
    ELSE IF Upper(label) \in DOMAIN lbl_upper
    THEN [found |-> TRUE, index |-> lbl_upper[Upper(label)]]
    ELSE [found |-> FALSE, index |-> 0]

(***************************************************************************)
(* RISCVSimulator.execute_instruction                                      *)
(*                                                                         *)
(* The machine is the record m = [registers, memory, pc,                   *)
(* instruction_count, cycle_count, memory_accesses]. A call returns        *)
(* [m, exc]: the machine it leaves and the exception it raised ("none"     *)
(* when it returned normally).                                             *)
(***************************************************************************)

Returned(m) == [m |-> m, exc |-> "none"]

Raised(m, e) == [m |-> m, exc |-> e]

\* The first exception of a sequence of evaluations, "none" if none raised.
RECURSIVE FirstError(_)
FirstError(es) ==
    IF es = <<>> THEN "none"
    ELSE IF Head(es) # "none" THEN Head(es)
    ELSE FirstError(Tail(es))

\* What parts[i] raises (Python's index i, from 0).
PartError(parts, i) == IF Len(parts) <= i THEN "IndexError" ELSE "none"

\* parts[i] (Python's index i, from 0).
Part(parts, i) == parts[i + 1]

\* What int(parts[i]) raises.
IntError(parts, i) ==
    IF Len(parts) <= i THEN "IndexError"
    ELSE IF ~IsInt(Part(parts, i)) THEN "ValueError"
    ELSE "none"

\* int(parts[i])
IntPart(parts, i) == IntVal(Part(parts, i))

\* self.registers[i] as an expression.
Reg(m, i) == m.registers[ListIndex(i)]

\* self.registers[i] = v
SetReg(m, i, v) == [m EXCEPT !.registers[ListIndex(i)] = v]

\* instruction.strip().upper(); instruction.replace(',', ' ').split()
Decode(instruction) == Words(Replace(Upper(Strip(instruction)), ",", " "))

\* ExecEmpty after the counters: lines 79-80 moved above line 74.
ExecEmptyCounted(m) ==
    Returned([m EXCEPT !.pc = @ + 1, !.instruction_count = @ + 1, !.cycle_count = @ + 1])

\* ExecEmpty without the advance of pc: line 75 left out.
ExecEmptyStays(m) == Returned(m)

\* if not parts: self.pc += 1; return
ExecEmpty(m) == Returned([m EXCEPT !.pc = @ + 1])

\* CountInstruction without the cycle: line 80 left out.
CountInstructionNoCycle(m) == [m EXCEPT !.instruction_count = @ + 1]

\* self.instruction_count += 1; self.cycle_count += 1
CountInstruction(m) ==
    [m EXCEPT !.instruction_count = @ + 1, !.cycle_count = @ + 1]

\* ExecADD writing rd before it reads rs2.
ExecADDAliased(m, parts) ==
    LET e == FirstError(<<IntError(parts, 1), IntError(parts, 2), IntError(parts, 3)>>)
        rd == IntPart(parts, 1)
        rs1 == IntPart(parts, 2)
        rs2 == IntPart(parts, 3)
        moved == SetReg(m, rd, Reg(m, rs1))
    IN  IF e # "none" THEN Raised(m, e)
        ELSE IF ~(ListIndexOK(rs1) /\ ListIndexOK(rs2) /\ ListIndexOK(rd))
        THEN Raised(m, "IndexError")
        ELSE Returned([SetReg(moved, rd, Reg(moved, rd) + Reg(moved, rs2)) EXCEPT !.pc = @ + 1])

ExecADD(m, parts) ==
    LET e == FirstError(<<IntError(parts, 1), IntError(parts, 2), IntError(parts, 3)>>)
        rd == IntPart(parts, 1)
        rs1 == IntPart(parts, 2)
        rs2 == IntPart(parts, 3)
    IN  IF e # "none" THEN Raised(m, e)
        ELSE IF ~(ListIndexOK(rs1) /\ ListIndexOK(rs2) /\ ListIndexOK(rd))
        THEN Raised(m, "IndexError")
        ELSE Returned([SetReg(m, rd, Reg(m, rs1) + Reg(m, rs2)) EXCEPT !.pc = @ + 1])

\* v wrapped into the signed w-bit range.
Wrap(v, w) == ((v + 2^(w - 1)) % 2^w) - 2^(w - 1)

\* ExecSUB on a machine with 16-bit registers: the difference wrapped.
ExecSUBWord16(m, parts) ==
    LET e == FirstError(<<IntError(parts, 1), IntError(parts, 2), IntError(parts, 3)>>)
        rd == IntPart(parts, 1)
        rs1 == IntPart(parts, 2)
        rs2 == IntPart(parts, 3)
    IN  IF e # "none" THEN Raised(m, e)
        ELSE IF ~(ListIndexOK(rs1) /\ ListIndexOK(rs2) /\ ListIndexOK(rd))
        THEN Raised(m, "IndexError")
        ELSE Returned([SetReg(m, rd, Wrap(Reg(m, rs1) - Reg(m, rs2), 16)) EXCEPT !.pc = @ + 1])

ExecSUB(m, parts) ==
    LET e == FirstError(<<IntError(parts, 1), IntError(parts, 2), IntError(parts, 3)>>)
        rd == IntPart(parts, 1)
        rs1 == IntPart(parts, 2)
        rs2 == IntPart(parts, 3)
    IN  IF e # "none" THEN Raised(m, e)
        ELSE IF ~(ListIndexOK(rs1) /\ ListIndexOK(rs2) /\ ListIndexOK(rd))
        THEN Raised(m, "IndexError")
        ELSE Returned([SetReg(m, rd, Reg(m, rs1) - Reg(m, rs2)) EXCEPT !.pc = @ + 1])

ExecLI(m, parts) ==
    LET e == FirstError(<<IntError(parts, 1), IntError(parts, 2)>>)
        rd == IntPart(parts, 1)
        imm == IntPart(parts, 2)
    IN  IF e # "none" THEN Raised(m, e)
        ELSE IF ~ListIndexOK(rd) THEN Raised(m, "IndexError")
        ELSE Returned([SetReg(m, rd, imm) EXCEPT !.pc = @ + 1])

\* offset_base = parts[2].split('(') and the two int() calls after it: what
\* they raise.
OffsetBaseError(parts) ==
    IF Len(parts) <= 2 THEN "IndexError"
    ELSE LET offset_base == Split(Part(parts, 2), "(")
         IN  IF offset_base[1] # <<>> /\ ~IsInt(offset_base[1]) THEN "ValueError"
             ELSE IF Len(offset_base) < 2 THEN "IndexError"
             ELSE IF ~IsInt(RStripSet(offset_base[2], {")"})) THEN "ValueError"
             ELSE "none"

\* offset = int(offset_base[0]) if offset_base[0] else 0
Offset(parts) ==
    LET offset_base == Split(Part(parts, 2), "(")
    IN  IF offset_base[1] # <<>> THEN IntVal(offset_base[1]) ELSE 0

\* base = int(offset_base[1].rstrip(')'))
Base(parts) == IntVal(RStripSet(Split(Part(parts, 2), "(")[2], {")"}))

\* ExecLW that fills the cell it reads: memory.setdefault(address, 0) in the
\* place of memory.get(address, 0).
ExecLWFills(m, parts) ==
    LET e == FirstError(<<IntError(parts, 1), OffsetBaseError(parts)>>)
        rd == IntPart(parts, 1)
        address == Reg(m, Base(parts)) + Offset(parts)
    IN  IF e # "none" THEN Raised(m, e)
        ELSE IF ~(ListIndexOK(Base(parts)) /\ ListIndexOK(rd))
        THEN Raised(m, "IndexError")
        ELSE Returned([SetReg(m, rd, Get(m.memory, address, 0)) EXCEPT
                         !.memory = Put(@, address, Get(m.memory, address, 0)),
                         !.memory_accesses = @ + 1, !.pc = @ + 1])

ExecLW(m, parts) ==
    LET e == FirstError(<<IntError(parts, 1), OffsetBaseError(parts)>>)
        rd == IntPart(parts, 1)
        address == Reg(m, Base(parts)) + Offset(parts)
    IN  IF e # "none" THEN Raised(m, e)
        ELSE IF ~(ListIndexOK(Base(parts)) /\ ListIndexOK(rd))
        THEN Raised(m, "IndexError")
        ELSE Returned([SetReg(m, rd, Get(m.memory, address, 0)) EXCEPT
                         !.memory_accesses = @ + 1, !.pc = @ + 1])

\* ExecSW with the offset left out of the address.
ExecSWNoOffset(m, parts) ==
    LET e == FirstError(<<IntError(parts, 1), OffsetBaseError(parts)>>)
        rs2 == IntPart(parts, 1)
        address == Reg(m, Base(parts))
    IN  IF e # "none" THEN Raised(m, e)
        ELSE IF ~(ListIndexOK(Base(parts)) /\ ListIndexOK(rs2))
        THEN Raised(m, "IndexError")
        ELSE Returned([m EXCEPT !.memory = Put(@, address, Reg(m, rs2)),
                                !.memory_accesses = @ + 1, !.pc = @ + 1])

ExecSW(m, parts) ==
    LET e == FirstError(<<IntError(parts, 1), OffsetBaseError(parts)>>)
        rs2 == IntPart(parts, 1)
        address == Reg(m, Base(parts)) + Offset(parts)
    IN  IF e # "none" THEN Raised(m, e)
        ELSE IF ~(ListIndexOK(Base(parts)) /\ ListIndexOK(rs2))
        THEN Raised(m, "IndexError")
        ELSE Returned([m EXCEPT !.memory = Put(@, address, Reg(m, rs2)),
                                !.memory_accesses = @ + 1, !.pc = @ + 1])

ExecBEQ(m, lbl, lbl_upper, parts) ==
    LET e == FirstError(<<IntError(parts, 1), IntError(parts, 2), PartError(parts, 3)>>)
        rs1 == IntPart(parts, 1)
        rs2 == IntPart(parts, 2)
        target == lookup_label(lbl, lbl_upper, Part(parts, 3))
    IN  IF e # "none" THEN Raised(m, e)
        ELSE IF ~(ListIndexOK(rs1) /\ ListIndexOK(rs2)) THEN Raised(m, "IndexError")
        ELSE IF Reg(m, rs1) = Reg(m, rs2)
        THEN IF target.found THEN Returned([m EXCEPT !.pc = target.index])
             ELSE Raised(m, "KeyError")
        ELSE Returned([m EXCEPT !.pc = @ + 1])

\* LinkAndJump storing the address of the JAL itself.
LinkAndJumpNoIncrement(m, lbl, lbl_upper, rd, target_label) ==
    LET linked == SetReg(m, rd, m.pc)
        target == lookup_label(lbl, lbl_upper, target_label)
    IN  IF ~ListIndexOK(rd) THEN Raised(m, "IndexError")
        ELSE IF target.found THEN Returned([linked EXCEPT !.pc = target.index])
        ELSE Raised(linked, "KeyError")

\* JAL from the store of the return address on: the write of line 147
\* happens before the lookup of line 150 can raise.
LinkAndJump(m, lbl, lbl_upper, rd, target_label) ==
    LET linked == SetReg(m, rd, m.pc + 1)
        target == lookup_label(lbl, lbl_upper, target_label)
    IN  IF ~ListIndexOK(rd) THEN Raised(m, "IndexError")
        ELSE IF target.found THEN Returned([linked EXCEPT !.pc = target.index])
        ELSE Raised(linked, "KeyError")

ExecJAL(m, lbl, lbl_upper, parts) ==
    IF Len(parts) = 2 THEN LinkAndJump(m, lbl, lbl_upper, 1, Part(parts, 1))
    ELSE LET e == FirstError(<<IntError(parts, 1), PartError(parts, 2)>>)
         IN  IF e # "none" THEN Raised(m, e)
             ELSE LinkAndJump(m, lbl, lbl_upper, IntPart(parts, 1), Part(parts, 2))

\* ExecJ taking every integer literal, a negative one too, as an amount to
\* add to pc: int() accepts what isdigit() refuses.
ExecJSigned(m, lbl, lbl_upper, parts) ==
    IF Len(parts) <= 1 THEN Raised(m, "IndexError")
    ELSE IF IsInt(Part(parts, 1))
    THEN Returned([m EXCEPT !.pc = @ + IntVal(Part(parts, 1))])
    ELSE LET target == lookup_label(lbl, lbl_upper, Part(parts, 1))
         IN  IF target.found THEN Returned([m EXCEPT !.pc = target.index])
             ELSE Raised(m, "KeyError")

\* ExecJ trying the operand as a label first, as a literal only when no
\* label has that name.
ExecJLabelFirst(m, lbl, lbl_upper, parts) ==
    IF Len(parts) <= 1 THEN Raised(m, "IndexError")
    ELSE LET target == lookup_label(lbl, lbl_upper, Part(parts, 1))
         IN  IF target.found THEN Returned([m EXCEPT !.pc = target.index])
             ELSE IF IsDigit(Part(parts, 1))
             THEN Returned([m EXCEPT !.pc = @ + IntVal(Part(parts, 1))])
             ELSE Raised(m, "KeyError")

ExecJ(m, lbl, lbl_upper, parts) ==
    IF Len(parts) <= 1 THEN Raised(m, "IndexError")
    ELSE IF IsDigit(Part(parts, 1))
    THEN Returned([m EXCEPT !.pc = @ + IntVal(Part(parts, 1))])
    ELSE LET target == lookup_label(lbl, lbl_upper, Part(parts, 1))
         IN  IF target.found THEN Returned([m EXCEPT !.pc = target.index])
             ELSE Raised(m, "KeyError")

\* ExecUnknown without the advance of pc: line 164 left out.
ExecUnknownStays(m) == Returned(m)

\* print(f"Unknown instruction: ..."); self.pc += 1
ExecUnknown(m) == Returned([m EXCEPT !.pc = @ + 1])

\* The opcodes the if/elif chain knows.
Opcodes == {OpADD, OpSUB, OpLI, OpLW, OpSW, OpBEQ, OpJAL, OpJ}

\* The if/elif chain on the opcode.
Dispatch(m, lbl, lbl_upper, parts) ==
    LET opcode == Part(parts, 0)
    IN  IF opcode = OpADD THEN ExecADD(m, parts)
        ELSE IF opcode = OpSUB THEN ExecSUB(m, parts)
        ELSE IF opcode = OpLI THEN ExecLI(m, parts)
        ELSE IF opcode = OpLW THEN ExecLW(m, parts)
        ELSE IF opcode = OpSW THEN ExecSW(m, parts)
        ELSE IF opcode = OpBEQ THEN ExecBEQ(m, lbl, lbl_upper, parts)
        ELSE IF opcode = OpJAL THEN ExecJAL(m, lbl, lbl_upper, parts)
        ELSE IF opcode = OpJ THEN ExecJ(m, lbl, lbl_upper, parts)
        ELSE ExecUnknown(m)

\* self.registers[0] = 0, reached only when the dispatch returned.
EnsureX0(r) ==
    IF r.exc = "none" THEN Returned([r.m EXCEPT !.registers[0] = 0]) ELSE r

execute_instruction(m, lbl, lbl_upper, instruction) ==
    LET parts == Decode(instruction)
    IN  IF parts = <<>> THEN ExecEmpty(m)
        ELSE EnsureX0(Dispatch(CountInstruction(m), lbl, lbl_upper, parts))

(***************************************************************************)
(* RISCVSimulator.__init__, reset, get_metrics                             *)
(***************************************************************************)

\* The machine __init__ builds.
InitMachine ==
    [registers |-> [i \in 0..(NumRegisters - 1) |-> 0],
     memory |-> EmptyDict,
     pc |-> 0,
     instruction_count |-> 0,
     cycle_count |-> 0,
     memory_accesses |-> 0]

\* reset() leaving the memory as it is: line 186 left out.
reset_keeps_memory(m) ==
    [registers |-> [i \in 0..(NumRegisters - 1) |-> 0],
     memory |-> m.memory,
     pc |-> 0,
     instruction_count |-> 0,
     cycle_count |-> 0,
     memory_accesses |-> 0]

\* reset() on machine m.
reset(m) ==
    [registers |-> [i \in 0..(NumRegisters - 1) |-> 0],
     memory |-> EmptyDict,
     pc |-> 0,
     instruction_count |-> 0,
     cycle_count |-> 0,
     memory_accesses |-> 0]

get_metrics(m) ==
    [instructions |-> m.instruction_count,
     cycles |-> m.cycle_count,
     memory_accesses |-> m.memory_accesses]

\* while 0 <= self.pc < len(self.program)
Running(m, prog) == 0 <= m.pc /\ m.pc < Len(prog)

\* The first k iterations of execute_program's loop from machine m, as
\* [m, exc]; the loop ends early when pc leaves the program or a call raises.
RECURSIVE ExecuteLoop(_, _, _, _, _)
ExecuteLoop(m, prog, lbl, lbl_upper, k) ==
    IF k = 0 \/ ~Running(m, prog) THEN Returned(m)
    ELSE LET r == execute_instruction(m, lbl, lbl_upper, prog[m.pc + 1])
         IN  IF r.exc # "none" THEN r
             ELSE ExecuteLoop(r.m, prog, lbl, lbl_upper, k - 1)

\* RISCVSimulator() and load_program(program_text) on it.
NewInstance(program_text) ==
    LET ld == load_program(EmptyDict, EmptyDict, program_text)
    IN  [m |-> InitMachine, program |-> ld.program,
         labels |-> ld.labels, labels_upper |-> ld.labels_upper]

\* execute_program() on a new instance with program_text loaded, k iterations
\* into its loop.
execute_program(program_text, k) ==
    LET new == NewInstance(program_text)
    IN  ExecuteLoop([new.m EXCEPT !.pc = 0], new.program, new.labels, new.labels_upper, k)

(***************************************************************************)
(* The sample programs of test_runner.py                                   *)
(***************************************************************************)

program1 ==
    <<<<"l", "i", " ", "2", " ", "1">>,
      <<"l", "i", " ", "3", " ", "1", "0">>,
      <<"a", "d", "d", " ", "2", " ", "3", " ", "2">>,
      <<"a", "d", "d", " ", "2", " ", "3", " ", "2">>,
      <<"a", "d", "d", " ", "2", " ", "3", " ", "2">>,
      <<"a", "d", "d", " ", "2", " ", "3", " ", "2">>,
      <<"a", "d", "d", " ", "2", " ", "3", " ", "2">>>>

program2 ==
    <<<<"l", "i", " ", "2", " ", "1", "2", "3", "3", "5", "3">>,
      <<"l", "i", " ", "3", " ", "4", "5", "5", "5", "1">>,
      <<"s", "u", "b", " ", "2", " ", "3", " ", "2">>,
      <<"s", "u", "b", " ", "2", " ", "3", " ", "2">>,
      <<"s", "u", "b", " ", "2", " ", "3", " ", "2">>,
      <<"s", "u", "b", " ", "2", " ", "3", " ", "2">>,
      <<"s", "u", "b", " ", "2", " ", "3", " ", "2">>>>

program3 ==
    <<<<"l", "i", " ", "2", " ", "5", "7", "7">>,
      <<"l", "i", " ", "3", " ", "5", "5", "5">>,
      <<"l", "i", " ", "5", " ", "4", "4", "3">>,
      <<"S", "U", "B", " ", "2", " ", "3", " ", "2">>,
      <<"S", "U", "B", " ", "2", " ", "3", " ", "2">>,
      <<"A", "D", "D", " ", "2", " ", "5", " ", "3">>,
      <<"A", "D", "D", " ", "2", " ", "2", " ", "2">>,
      <<"S", "U", "B", " ", "2", " ", "3", " ", "2">>,
      <<"S", "U", "B", " ", "2", " ", "3", " ", "2">>,
      <<"S", "U", "B", " ", "2", " ", "3", " ", "2">>,
      <<"A", "D", "D", " ", "5", " ", "3", " ", "2">>,
      <<"A", "D", "D", " ", "3", " ", "2", " ", "3">>>>

program4 ==
    <<<<"s", "t", "a", "r", "t", ":", " ", "L", "I", " ", "3", " ", "1">>,
      <<"L", "I", " ", "5", " ", "1", "0">>,
      <<"c", "o", "u", "n", "t", "_", "l", "o", "o", "p", ":", " ", "B", "E", "Q", " ", "3", " ", "5", " ", "d", "o", "n", "e">>,
      <<"J", "A", "L", " ", "i", "n", "c", "r", "e", "m", "e", "n", "t">>,
      <<"J", " ", "c", "o", "u", "n", "t", "_", "l", "o", "o", "p">>,
      <<"i", "n", "c", "r", "e", "m", "e", "n", "t", ":", " ", "A", "D", "D", " ", "3", " ", "3", " ", "1">>,
      <<"J", " ", "1">>,
      <<"d", "o", "n", "e", ":", " ", "J", " ", "d", "o", "n", "e">>>>

SamplePrograms == {program1, program2, program3, program4}

\* The first three lines of program1.
ScenarioProgram == SubSeq(program1, 1, 3)

\* The default of run_program's parameter max_instructions.
default_max_instructions == 100

(***************************************************************************)
(* Program text given to load_program                                      *)
(***************************************************************************)

\* str(n) of a natural number.
RECURSIVE Dec(_)
Dec(n) == IF n < 10 THEN <<Digits[n + 1]>> ELSE Dec(n \div 10) \o <<Digits[(n % 10) + 1]>>

\* str(n) of an integer.
Num(n) == IF n < 0 THEN <<"-">> \o Dec(0 - n) ELSE Dec(n)

TextADD(rd, rs1, rs2) == OpADD \o <<" ">> \o Num(rd) \o <<" ">> \o Num(rs1) \o <<" ">> \o Num(rs2)

TextSUB(rd, rs1, rs2) == OpSUB \o <<" ">> \o Num(rd) \o <<" ">> \o Num(rs1) \o <<" ">> \o Num(rs2)

TextLI(rd, imm) == OpLI \o <<" ">> \o Num(rd) \o <<" ">> \o Num(imm)

\* "LW rd, offset(base)"; the offset 0 is written as the empty offset.
OffsetText(offset, base) ==
    (IF offset = 0 THEN <<>> ELSE Num(offset)) \o <<"(">> \o Num(base) \o <<")">>

TextLW(rd, offset, base) == OpLW \o <<" ">> \o Num(rd) \o <<",", " ">> \o OffsetText(offset, base)

TextSW(rs2, offset, base) == OpSW \o <<" ">> \o Num(rs2) \o <<",", " ">> \o OffsetText(offset, base)

TextBEQ(rs1, rs2, label) == OpBEQ \o <<" ">> \o Num(rs1) \o <<" ">> \o Num(rs2) \o <<" ">> \o label

\* "JAL label"
TextJAL(label) == OpJAL \o <<" ">> \o label

\* "JAL rd, label"
TextJALrd(rd, label) == OpJAL \o <<" ">> \o Num(rd) \o <<",", " ">> \o label

TextJ(label) == OpJ \o <<" ">> \o label

\* "label: instruction"
Declare(label, instruction) == label \o <<":", " ">> \o instruction

\* The register indices the generated programs name.
TestRegs == {0, 1, 2}

TestOffsets == {0, 4, -8}

\* Two instructions that give registers 1 and 2 their values.
Setups == {<<TextLI(1, 5), TextLI(2, 3)>>, <<TextLI(1, -4), TextLI(2, -4)>>}

ArithPrograms ==
    {su \o <<t>> : su \in Setups,
                   t \in {TextADD(rd, rs1, rs2) : rd \in TestRegs, rs1 \in TestRegs, rs2 \in TestRegs}
                         \cup {TextSUB(rd, rs1, rs2) : rd \in TestRegs, rs1 \in TestRegs, rs2 \in TestRegs}
                         \cup {TextLI(rd, imm) : rd \in TestRegs, imm \in {7, -7}}}

\* A store followed by a load with the same offset and base.
RoundTripPrograms ==
    {su \o <<TextSW(rs2, off, base), TextLW(rd, off, base)>> :
        su \in Setups, rs2 \in TestRegs, base \in TestRegs, rd \in TestRegs, off \in TestOffsets}

LabelLoop == <<"L", "o", "o", "p">>
LabelLOOP == <<"L", "O", "O", "P">>
Labelloop == <<"l", "o", "o", "p">>
LabelSub == <<"s", "u", "b">>

Casings == {LabelLoop, LabelLOOP, Labelloop}

\* The instructions that transfer control to a label: a taken BEQ, JAL in
\* both forms, J, and a lower-case BEQ.
Jumps(label) ==
    {TextBEQ(0, 0, label), TextJAL(label), TextJALrd(2, label), TextJ(label),
     <<"b", "e", "q", " ", "0", ",", "0", ",">> \o label}

\* One label, declared once, and a jump to it in any casing.
LabelPrograms ==
    {<<TextLI(1, 1), j, TextLI(2, 2), Declare(d, TextLI(2, 3))>> :
        d \in Casings, j \in UNION {Jumps(o) : o \in Casings}}

\* Two labels that differ in letter case only.
CollisionPrograms ==
    {<<j, Declare(d[1], TextLI(1, 1)), Declare(d[2], TextLI(2, 2))>> :
        d \in {c \in Casings \X Casings : c[1] # c[2]},
        j \in UNION {{TextJ(o), TextJAL(o)} : o \in Casings}}

JalTexts == {TextJAL(LabelSub)} \cup {TextJALrd(rd, LabelSub) : rd \in {0, 1, 2, 31}}

\* p instructions before the JAL.
Filler(p) == [i \in 1..p |-> TextLI(3, 6)]

\* JAL at index p, to a label declared after it, to a label on the last line
\* with no instruction, and to a label declared before it.
JalPrograms ==
    UNION {{Filler(p) \o <<j, TextLI(2, 9), Declare(LabelSub, TextLI(2, 7))>>,
            Filler(p) \o <<j, TextLI(2, 9), LabelSub \o <<":">>>>,
            <<Declare(LabelSub, TextLI(2, 9))>> \o Filler(p) \o <<j>>} :
           p \in 0..2, j \in JalTexts}

\* Instructions that raise once registers 1 and 2 hold their values.
FailingTexts ==
    {<<"B", "E", "Q", " ", "1", " ", "1", " ", "n", "o", "w", "h", "e", "r", "e">>,
     <<"J", "A", "L", " ", "n", "o", "w", "h", "e", "r", "e">>,
     <<"J", "A", "L", " ", "0", ",", " ", "n", "o", "w", "h", "e", "r", "e">>,
     <<"J", "A", "L", " ", "2", ",", " ", "n", "o", "w", "h", "e", "r", "e">>,
     <<"J", " ", "n", "o", "w", "h", "e", "r", "e">>,
     <<"J", " ", "-", "1">>,
     <<"A", "D", "D", " ", "1", " ", "x", " ", "2">>,
     <<"A", "D", "D", " ", "1", " ", "2">>,
     <<"S", "U", "B", " ", "1", " ", "2", " ", "-", "3", "3">>,
     <<"L", "I", " ", "3", "2", " ", "5">>,
     <<"L", "I", " ", "1">>,
     <<"L", "W", " ", "1", ",", " ", "4">>,
     <<"L", "W", " ", "1", ",", " ", "4", "(", "x", ")">>,
     <<"S", "W", " ", "1", ",", " ", "(", "4", "0", ")">>,
     <<"J", "A", "L">>,
     <<"J">>,
     <<"B", "E", "Q", " ", "1", " ", "1">>}

\* A store, so that memory and memory_accesses are not the initial ones,
\* then an instruction that raises.
FailingPrograms ==
    {su \o <<TextSW(1, 4, 0), t>> : su \in Setups, t \in FailingTexts}

\* Unknown opcodes, empty slots, and a BEQ that is not taken past a label
\* that does not exist.
MixedPrograms ==
    {<<<<"l", "i", " ", "1", " ", "5">>,
       <<"n", "o", "p">>,
       <<"m", "u", "l", " ", "1", ",", " ", "1", ",", " ", "1">>,
       <<",">>,
       <<"s", "w", " ", "1", ",", " ", "0", "(", "1", ")">>,
       <<"\"", "\"">>,
       <<"l", "w", " ", "2", ",", " ", "0", "(", "1", ")">>,
       <<"b", "e", "q", " ", "1", " ", "0", " ", "n", "o", "w", "h", "e", "r", "e">>,
       <<"A", "d", "d", " ", "3", ",", " ", "2", ",", " ", "1">>>>}

\* Instructions whose first token is none of the eight opcodes: a typo, an
\* opcode this machine does not have, one with operands that no opcode would
\* accept, a number, and an opcode glued to its operand.
UnknownTexts ==
    {<<"n", "o", "p">>,
     <<"a", "d", "d", "i", " ", "1", ",", " ", "1", ",", " ", "1">>,
     <<"B", "N", "E", " ", "1", " ", "2", " ", "n", "o", "w", "h", "e", "r", "e">>,
     <<"m", "u", "l", " ", "x", ",", " ", "(", "y">>,
     <<"1", "2", " ", "1", " ", "1">>,
     <<"J", "1">>}

\* A store, an unknown instruction, and an instruction after it.
UnknownPrograms ==
    {su \o <<TextSW(1, 4, 0), t, TextLI(2, 9)>> : su \in Setups, t \in UnknownTexts}

\* The largest and the smallest value of a signed 31-bit word.
WideMax == 1073741823
WideMin == -1073741824

\* Values at the two ends of a 31-bit word, then one ADD or SUB whose exact
\* result is outside it.
WidePrograms ==
    {<<TextLI(1, WideMax), TextLI(2, WideMin), t>> :
        t \in {TextADD(1, 1, 1), TextADD(3, 1, 1), TextSUB(2, 2, 1), TextSUB(3, 2, 1)}}

\* The literals of the generated `J n`.
JumpLiterals == {0, 1, 2, 7}

\* The operand of `J n` as written: str(n), and n with a leading zero.
JumpOperands == {Dec(n) : n \in JumpLiterals} \cup {<<"0">> \o Dec(n) : n \in JumpLiterals}

\* `J n` at index 1, a label named n declared at index 0, and two
\* instructions after the jump.
DigitJumpPrograms ==
    {<<Declare(o, TextLI(1, 5)), TextJ(o), TextLI(2, 3), TextLI(3, 6)>> : o \in JumpOperands}

\* Lines that load as a slot with no token in it: commas only, a quoted empty
\* string, commas and blanks, and a quoted empty string after a label.
EmptyTexts ==
    {<<",">>,
     <<"\"", "\"">>,
     <<",", " ", ",", ",">>,
     <<"x", ":", " ", "\"", "\"">>}

\* A store, a slot with no token, and an instruction after it.
EmptySlotPrograms ==
    {<<TextLI(1, 5), TextSW(1, 4, 0), e, TextLI(2, 3)>> : e \in EmptyTexts}

\* A call at index p of a subroutine that is the single instruction `J 1`.
CallPrograms ==
    {Filler(p) \o <<TextJAL(LabelSub), TextLI(2, 9), TextLI(2, 3),
                    Declare(LabelSub, TextJ(<<"1">>))>> : p \in 0..1}

\* Registers 1 and 2 set, one store to address 4, then a load: from address 4
\* when off = 4 and base = 0, from an address nothing was stored to otherwise.
LoadPrograms ==
    {<<TextLI(1, 5), TextLI(2, 3), TextSW(1, 4, 0), TextLW(rd, off, base)>> :
        rd \in TestRegs, base \in TestRegs, off \in TestOffsets}

\* The label named -1.
LabelMinusOne == <<"-", "1">>

\* Jumps whose operand is written as a negative number: to the label named
\* -1, declared at index 0, and `J -2` where no label has that name.
NegativeJumpPrograms ==
    {<<Declare(LabelMinusOne, TextLI(1, 5)), TextLI(2, 3), j>> : j \in Jumps(LabelMinusOne)}
    \cup {<<TextLI(1, 5), TextJ(<<"-", "2">>)>>}

\* Raw lines for the loader: a comment-only line, a label on a line of its
\* own, a label with an instruction and a comment, a label with blanks
\* around it, and an instruction.
LineComment == <<" ", " ", "#", " ", "n", "o", "t", "e">>
LineLabelOnly == <<"a", ":">>
LineLabelInstr == <<"B", ":", " ", "l", "i", " ", "1", " ", "1", " ", "#", " ", "c">>
LineSpacedLabel == <<" ", "b", " ", ":", " ">>
LineInstr == <<"l", "i", " ", "2", " ", "2">>

\* The raw lines, each with the label it is written to declare (none, or
\* one) and the instruction it is written to hold (slot = FALSE: none).
LoaderPool ==
    {[text |-> <<>>, declares |-> <<>>, slot |-> FALSE, instr |-> <<>>],
     [text |-> LineComment, declares |-> <<>>, slot |-> FALSE, instr |-> <<>>],
     [text |-> LineLabelOnly, declares |-> <<<<"a">>>>, slot |-> FALSE, instr |-> <<>>],
     [text |-> LineLabelInstr, declares |-> <<<<"B">>>>, slot |-> TRUE,
      instr |-> <<"l", "i", " ", "1", " ", "1">>],
     [text |-> LineSpacedLabel, declares |-> <<<<"b">>>>, slot |-> FALSE, instr |-> <<>>],
     [text |-> LineInstr, declares |-> <<>>, slot |-> TRUE, instr |-> LineInstr]}

MaxLines == 3

LoaderPrograms ==
    UNION {[1..n -> {e.text : e \in LoaderPool}] : n \in 0..MaxLines}

Programs ==
    SamplePrograms \cup ArithPrograms \cup RoundTripPrograms \cup LabelPrograms
    \cup CollisionPrograms \cup JalPrograms \cup FailingPrograms \cup MixedPrograms
    \cup LoaderPrograms \cup {ScenarioProgram} \cup UnknownPrograms
    \cup WidePrograms \cup DigitJumpPrograms
    \cup EmptySlotPrograms \cup CallPrograms \cup LoadPrograms
    \cup NegativeJumpPrograms

\* The programs made of well-formed ADD, SUB, LI, LW and SW, unknown opcodes
\* and empty slots only, the empty program and a program of one comment among
\* them.
StraightPrograms ==
    ArithPrograms \cup RoundTripPrograms \cup UnknownPrograms \cup EmptySlotPrograms
    \cup LoadPrograms \cup WidePrograms \cup {ScenarioProgram, <<>>, <<LineComment>>}

\* The programs execute_program is followed on from its entry to its return:
\* the straight ones, programs whose jumps leave the program, and programs
\* with an instruction that raises.
RunPrograms ==
    StraightPrograms \cup DigitJumpPrograms \cup CallPrograms \cup FailingPrograms

\* The largest budget given to run_program, the default apart.
MaxBudget == 4

\* The values of max_instructions run_program is called with.
Budgets == 1..MaxBudget

\* The programs run_program is given a budget for: programs that halt on
\* their own after 0, 3, 4 and 5 steps, one that jumps past its end, one that
\* stays on `J 0` for ever, and one whose last instruction raises.
BudgetPrograms ==
    {<<>>, ScenarioProgram,
     <<TextLI(1, 5), TextSW(1, 4, 0), <<",">>, TextLI(2, 3)>>,
     <<TextLI(1, 5), TextLI(2, 3), TextSW(1, 4, 0), <<"n", "o", "p">>, TextLI(2, 9)>>,
     <<Declare(<<"7">>, TextLI(1, 5)), TextJ(<<"7">>), TextLI(2, 3), TextLI(3, 6)>>,
     <<Declare(<<"0">>, TextLI(1, 5)), TextJ(<<"0">>), TextLI(2, 3), TextLI(3, 6)>>,
     <<TextLI(1, 5), TextJ(<<"-", "2">>)>>}

(***************************************************************************)
(* State                                                                   *)
(***************************************************************************)

VARIABLES
    \* the fields of one RISCVSimulator instance
    registers, memory, pc, instruction_count, cycle_count, memory_accesses,
    labels, labels_upper, program,
    \* where the caller is: "new" (constructed, nothing loaded), "idle"
    \* (loaded, between calls), "execute_program" (inside its while loop),
    \* "run_program" (inside the harness's while loop), "returned" (run_program
    \* returned), "crashed" (an exception left run_program)
    mode,
    \* run_program's parameter max_instructions, its local instruction_limit,
    \* and whether it printed
    \* "Execution stopped after ... instructions"
    max_instructions, instruction_limit, reported,
    \* history, for stating the properties: the program_text given to
    \* load_program; the last call made on the instance (its name, the
    \* instruction text, the exception it raised, the machine before it, the
    \* tokens execute_instruction split the text into) and
    \* the call before that one; the
    \* execute_instruction calls since construction or the last reset, those
    \* of them that were dispatched and returned, those of them that were LW
    \* or SW and returned, whether one of them raised; and, inside or after an
    \* execute_program called right after reset(), the number of its steps
    \* (otherwise -1)
    source, last, before_last, calls, dispatched, mem_ops, failed, reset_run

machine_vars == <<registers, memory, pc, instruction_count, cycle_count, memory_accesses>>

loader_vars == <<labels, labels_upper, program, source>>

harness_vars == <<max_instructions, instruction_limit, reported>>

count_vars == <<calls, dispatched, mem_ops, failed>>

history_vars == <<last, before_last>>

vars == <<machine_vars, loader_vars, mode, harness_vars, history_vars, count_vars, reset_run>>

\* The machine as a record.
Machine ==
    [registers |-> registers,
     memory |-> memory,
     pc |-> pc,
     instruction_count |-> instruction_count,
     cycle_count |-> cycle_count,
     memory_accesses |-> memory_accesses]

SetMachine(m) ==
    /\ registers' = m.registers
    /\ memory' = m.memory
    /\ pc' = m.pc
    /\ instruction_count' = m.instruction_count
    /\ cycle_count' = m.cycle_count
    /\ memory_accesses' = m.memory_accesses

\* The call rec is made: it becomes the last call.
Remember(rec) == last' = rec /\ before_last' = last

\* The cap on the execute_instruction calls between two resets that keeps the
\* counters finite.
MaxSteps == 6

Init ==
    /\ registers = InitMachine.registers
    /\ memory = InitMachine.memory
    /\ pc = InitMachine.pc
    /\ instruction_count = InitMachine.instruction_count
    /\ cycle_count = InitMachine.cycle_count
    /\ memory_accesses = InitMachine.memory_accesses
    /\ labels = EmptyDict
    /\ labels_upper = EmptyDict
    /\ program = <<>>
    /\ mode = "new"
    /\ max_instructions = 0
    /\ instruction_limit = 0
    /\ reported = FALSE
    /\ source = <<>>
    /\ last = [op |-> "__init__", text |-> <<>>, exc |-> "none", pre |-> InitMachine,
               parts |-> <<>>]
    /\ before_last = [op |-> "none", text |-> <<>>, exc |-> "none", pre |-> InitMachine,
               parts |-> <<>>]
    /\ calls = 0
    /\ dispatched = 0
    /\ mem_ops = 0
    /\ failed = FALSE
    /\ reset_run = -1

(***************************************************************************)
(* Operations                                                              *)
(***************************************************************************)

\* simulator.load_program(program_text), once per instance, as main() and
\* run_program() call it.
LoadProgram(program_text) ==
    /\ mode = "new"
    /\ LET ld == load_program(labels, labels_upper, program_text)
       IN  /\ program' = ld.program
           /\ labels' = ld.labels
           /\ labels_upper' = ld.labels_upper
    /\ source' = program_text
    /\ mode' = "idle"
    /\ Remember([op |-> "load_program", text |-> <<>>, exc |-> "none", pre |-> Machine,
                 parts |-> <<>>])
    /\ UNCHANGED <<machine_vars, harness_vars, count_vars, reset_run>>

\* One call execute_instruction(self.program[self.pc]) and the history of it.
Step ==
    LET text == program[pc + 1]
        r == execute_instruction(Machine, labels, labels_upper, text)
        parts == Decode(text)
        ok == r.exc = "none"
    IN  /\ SetMachine(r.m)
        /\ Remember([op |-> "execute_instruction", text |-> text, exc |-> r.exc,
                    pre |-> Machine, parts |-> parts])
        /\ calls' = calls + 1
        /\ dispatched' = IF ok /\ parts # <<>> THEN dispatched + 1 ELSE dispatched
        /\ mem_ops' = IF ok /\ parts # <<>> /\ parts[1] \in {OpLW, OpSW}
                      THEN mem_ops + 1 ELSE mem_ops
        /\ failed' = (failed \/ ~ok)

\* execute_program(): self.pc = 0, then the loop.
ExecuteProgram ==
    /\ mode = "idle"
    /\ mode' = "execute_program"
    /\ pc' = 0
    /\ reset_run' = IF last.op = "reset" THEN 0 ELSE -1
    /\ Remember([op |-> "execute_program", text |-> <<>>, exc |-> "none", pre |-> Machine,
                 parts |-> <<>>])
    /\ UNCHANGED <<registers, memory, instruction_count, cycle_count, memory_accesses,
                   loader_vars, harness_vars, count_vars>>

\* One iteration of execute_program's loop; an exception leaves the loop and
\* the call.
ExecuteProgramStep ==
    /\ mode = "execute_program"
    /\ Running(Machine, program)
    /\ calls < MaxSteps
    /\ Step
    /\ mode' = IF last'.exc = "none" THEN "execute_program" ELSE "idle"
    /\ reset_run' = IF reset_run >= 0 THEN reset_run + 1 ELSE -1
    /\ UNCHANGED <<loader_vars, harness_vars>>

\* The loop condition is false: execute_program returns.
ExecuteProgramReturn ==
    /\ mode = "execute_program"
    /\ ~Running(Machine, program)
    /\ mode' = "idle"
    /\ UNCHANGED <<machine_vars, loader_vars, harness_vars, history_vars, count_vars, reset_run>>

\* A caller stepping the machine itself, as run_program does.
ExecuteInstruction ==
    /\ mode = "idle"
    /\ Running(Machine, program)
    /\ calls < MaxSteps
    /\ Step
    /\ reset_run' = -1
    /\ UNCHANGED <<loader_vars, mode, harness_vars>>

\* reset()
Reset ==
    /\ mode \in {"new", "idle"}
    /\ SetMachine(reset(Machine))
    /\ Remember([op |-> "reset", text |-> <<>>, exc |-> "none", pre |-> Machine,
                 parts |-> <<>>])
    /\ calls' = 0
    /\ dispatched' = 0
    /\ mem_ops' = 0
    /\ failed' = FALSE
    /\ reset_run' = -1
    /\ UNCHANGED <<loader_vars, mode, harness_vars>>

\* run_program(name, program_data, budget) up to its loop: a new simulator,
\* the program loaded, pc = 0 and the budget set.
RunProgram(program_data, budget) ==
    /\ mode = "new"
    /\ last.op = "__init__"
    /\ LET ld == load_program(labels, labels_upper, program_data)
       IN  /\ program' = ld.program
           /\ labels' = ld.labels
           /\ labels_upper' = ld.labels_upper
    /\ source' = program_data
    /\ pc' = 0
    /\ max_instructions' = budget
    /\ instruction_limit' = max_instructions'
    /\ mode' = "run_program"
    /\ Remember([op |-> "run_program", text |-> <<>>, exc |-> "none", pre |-> Machine,
                 parts |-> <<>>])
    /\ UNCHANGED <<registers, memory, instruction_count, cycle_count, memory_accesses,
                   reported, count_vars, reset_run>>

\* One iteration of run_program's loop; an exception leaves run_program.
RunProgramStep ==
    /\ mode = "run_program"
    /\ Running(Machine, program)
    /\ instruction_limit > 0
    /\ Step
    /\ IF last'.exc = "none"
       THEN mode' = "run_program" /\ instruction_limit' = instruction_limit - 1
       ELSE mode' = "crashed" /\ instruction_limit' = instruction_limit
    /\ UNCHANGED <<loader_vars, max_instructions, reported, reset_run>>

\* The loop condition is false: the message of the budget, and the return.
RunProgramReturn ==
    /\ mode = "run_program"
    /\ ~(Running(Machine, program) /\ instruction_limit > 0)
    /\ reported' = (instruction_limit <= 0)
    /\ mode' = "returned"
    /\ UNCHANGED <<machine_vars, loader_vars, max_instructions, instruction_limit, history_vars,
                   count_vars, reset_run>>

Next ==
    \/ \E program_text \in Programs : LoadProgram(program_text)
    \/ ExecuteProgram
    \/ ExecuteProgramStep
    \/ ExecuteProgramReturn
    \/ ExecuteInstruction
    \/ Reset
    \/ \E program_data \in SamplePrograms : RunProgram(program_data, default_max_instructions)
    \/ \E program_data \in BudgetPrograms, budget \in Budgets : RunProgram(program_data, budget)
    \/ RunProgramStep
    \/ RunProgramReturn

Spec == Init /\ [][Next]_vars

\* execute_program() called on a machine that made no step since it was
\* constructed or reset.
FreshExecuteProgram == calls = 0 /\ ExecuteProgram

NextRun ==
    \/ \E program_text \in RunPrograms : LoadProgram(program_text)
    \/ FreshExecuteProgram
    \/ ExecuteProgramStep
    \/ ExecuteProgramReturn
    \/ Reset

\* ExecuteProgramStep is enabled.
CanIterate == mode = "execute_program" /\ Running(Machine, program) /\ calls < MaxSteps

\* The runs of execute_program from a fresh machine. Its while loop is
\* sequential code: once entered, it makes its next iteration or returns.
\* That is weak fairness of ExecuteProgramStep, written with its enabling
\* condition, and of ExecuteProgramReturn.
SpecRun ==
    /\ Init
    /\ [][NextRun]_vars
    /\ ([]<>(~CanIterate) \/ []<><<ExecuteProgramStep>>_vars)
    /\ WF_vars(ExecuteProgramReturn)

(***************************************************************************)
(* Properties                                                              *)
(***************************************************************************)

\* The last call was execute_instruction on the instruction text t.
Executed(t) == last.op = "execute_instruction" /\ last.text = t

\* The last call was execute_instruction and it raised.
StepRaised == last.op = "execute_instruction" /\ last.exc # "none"

\* C1: register 0 is 0 in every state the caller can observe, whatever
\* program is loaded and whatever steps were made, also right after an
\* instruction that names register 0 as its destination.
C1_RegisterZeroIsZero == registers[0] = 0

\* C2: when a step raises (a label that does not resolve, a malformed
\* operand), the registers, the memory, pc and the three metrics are those of
\* before the step: the failing instruction changes nothing.
C2_FailedStepChangesNothing == StepRaised => Machine = last.pre

\* C3: instruction_count equals cycle_count in every reachable state; and as
\* long as no step has raised since construction or the last reset, both
\* equal the number of instructions dispatched since then (recognized or
\* unknown opcode) and memory_accesses equals the number of LW and SW among
\* them.
C3_MetricsCountDispatched ==
    /\ instruction_count = cycle_count
    /\ ~failed =>
          /\ get_metrics(Machine).instructions = dispatched
          /\ get_metrics(Machine).cycles = dispatched
          /\ get_metrics(Machine).memory_accesses = mem_ops

\* C3's case: four instructions were dispatched, one of them a store, one an
\* unknown opcode, and an empty slot was stepped over.
C3_Witness ==
    /\ ~failed
    /\ dispatched >= 4
    /\ mem_ops >= 1
    /\ calls > dispatched
    /\ source \in MixedPrograms

LabelDone == <<"d", "o", "n", "e">>

\* The harness runs, or has run, test_runner's program4 on a new simulator.
RunsProgram4 == source = program4 /\ mode \in {"run_program", "returned"}

\* C4: run on a new machine with the harness's budget, the call/return
\* sample program has register 3 equal to 10 when pc reaches the index of
\* `done` and in every later state.
C4_Program4CountsToTen ==
    (RunsProgram4 /\ pc = labels[LabelDone]) => registers[3] = 10

\* C4, the part that holds: once pc is at the index of `done` it stays there
\* (`J done` jumps to itself) until the budget stops the run.
C4_Program4StaysAtDone ==
    [][(RunsProgram4 /\ pc = labels[LabelDone]) => pc' = labels[LabelDone]]_vars

\* C5 as stated: SW rs2, offset(base) immediately followed by
\* LW rd, offset(base), rd # base, leaves in rd the value rs2 had at the
\* store and raises memory_accesses by 2.
C5_RoundTripAnyRd ==
    \A rs2 \in TestRegs, base \in TestRegs, rd \in TestRegs, off \in TestOffsets :
        ( /\ rd # base
          /\ before_last.op = "execute_instruction"
          /\ before_last.text = TextSW(rs2, off, base)
          /\ before_last.exc = "none"
          /\ Executed(TextLW(rd, off, base)) )
        => /\ last.exc = "none"
           /\ registers[rd] = before_last.pre.registers[rs2]
           /\ memory_accesses = before_last.pre.memory_accesses + 2

\* C5, amended: the same for rd # base and rd # 0 (a load into register 0
\* leaves 0 there).
C5_RoundTrip ==
    \A rs2 \in TestRegs, base \in TestRegs, rd \in TestRegs \ {0}, off \in TestOffsets :
        ( /\ rd # base
          /\ before_last.op = "execute_instruction"
          /\ before_last.text = TextSW(rs2, off, base)
          /\ before_last.exc = "none"
          /\ Executed(TextLW(rd, off, base)) )
        => /\ last.exc = "none"
           /\ registers[rd] = before_last.pre.registers[rs2]
           /\ memory_accesses = before_last.pre.memory_accesses + 2

\* C5's case: register 2 stored at a negative offset of itself and loaded
\* back into register 1, which held another value before.
C5_Witness ==
    /\ before_last.op = "execute_instruction"
    /\ before_last.text = TextSW(2, -8, 2)
    /\ before_last.exc = "none"
    /\ Executed(TextLW(1, -8, 2))
    /\ last.exc = "none"
    /\ last.pre.registers[1] = 5
    /\ registers[1] = 3

\* Line i of program_text declares the label d: it begins with d and a colon.
DeclaresAt(program_text, i, d) ==
    /\ Len(program_text[i]) > Len(d)
    /\ SubSeq(program_text[i], 1, Len(d) + 1) = d \o <<":">>

\* The lines of program_text that declare Loop in one of its casings.
LoopDeclarations(program_text) ==
    {i \in 1..Len(program_text) : \E d \in Casings : DeclaresAt(program_text, i, d)}

\* C6: when a label is declared once, in whatever casing (one line declares
\* Loop, LOOP or loop), a taken BEQ, a JAL or a J that names it in any casing
\* does not raise and sets pc to the index the loader gave the label.
C6_CaseInsensitiveJump ==
    \A d \in Casings, o \in Casings :
        ( /\ Cardinality(LoopDeclarations(source)) = 1
          /\ \E i \in 1..Len(source) : DeclaresAt(source, i, d)
          /\ last.op = "execute_instruction"
          /\ last.text \in Jumps(o) )
        => /\ last.exc = "none"
           /\ d \in DOMAIN labels
           /\ pc = labels[d]

\* C6's case: the label is declared `Loop:`, followed by instructions, and a
\* BEQ naming it `loop` was taken to it.
C6_Witness ==
    /\ Cardinality(LoopDeclarations(source)) = 1
    /\ \E i \in 1..Len(source) : DeclaresAt(source, i, LabelLoop)
    /\ Executed(TextBEQ(0, 0, Labelloop))
    /\ last.exc = "none"
    /\ pc = labels[LabelLoop]
    /\ pc # last.pre.pc + 1

\* C7: JAL at pc = p with the label declared: `JAL label` sets register 1,
\* `JAL rd, label` register rd, to p + 1 (register 0 stays 0), pc becomes the
\* index of the label, and no other register and no memory cell changes.
C7_JalLinksAndJumps ==
    \A rd \in {0, 1, 2, 31} :
        ( /\ last.op = "execute_instruction"
          /\ \/ last.text = TextJALrd(rd, LabelSub)
             \/ rd = 1 /\ last.text = TextJAL(LabelSub)
          /\ LabelSub \in DOMAIN labels )
        => /\ last.exc = "none"
           /\ pc = labels[LabelSub]
           /\ registers[rd] = IF rd = 0 THEN 0 ELSE last.pre.pc + 1
           /\ \A i \in 0..(NumRegisters - 1) : i # rd => registers[i] = last.pre.registers[i]
           /\ memory = last.pre.memory

\* C7's case: `JAL sub` at index 2 has put 3 in register 1, which held 0, and
\* pc is at the label, which is not the next instruction.
C7_Witness ==
    /\ Executed(TextJAL(LabelSub))
    /\ last.exc = "none"
    /\ last.pre.pc = 2
    /\ last.pre.registers[1] = 0
    /\ registers[1] = 3
    /\ pc = labels[LabelSub]
    /\ pc # 3

\* C8: after reset() the machine is the one __init__ builds (registers,
\* memory, pc and the three metrics) with the program and both label tables
\* as loaded; and an execute_program called next goes through the states a
\* new instance with the same program loaded goes through.
C8_ResetReproducesNewInstance ==
    /\ last.op = "reset" =>
          /\ Machine = InitMachine
          /\ mode = "idle" =>
                /\ program = NewInstance(source).program
                /\ labels = NewInstance(source).labels
                /\ labels_upper = NewInstance(source).labels_upper
    /\ reset_run >= 0 =>
          /\ Machine = execute_program(source, reset_run).m
          /\ reset_run > 0 => last.exc = execute_program(source, reset_run).exc

\* C8's case: the execute_program called after a reset() has made the four
\* steps of a program that stores and loads, and the store is in memory again.
C8_Witness ==
    /\ reset_run = 4
    /\ memory # EmptyDict
    /\ memory_accesses > 0
    /\ \E rs2 \in TestRegs, base \in TestRegs, rd \in TestRegs, off \in TestOffsets :
          source \in {su \o <<TextSW(rs2, off, base), TextLW(rd, off, base)>> : su \in Setups}

\* The last call was a step on text t, and apart from register rd it
\* advanced pc by 1 and left the registers, the memory and memory_accesses
\* as they were.
OnlyWrote(rd) ==
    /\ last.exc = "none"
    /\ pc = last.pre.pc + 1
    /\ \A i \in 0..(NumRegisters - 1) : i # rd => registers[i] = last.pre.registers[i]
    /\ memory = last.pre.memory
    /\ memory_accesses = last.pre.memory_accesses

\* C9: for rd # 0 and any rs1, rs2 (rd = rs1 and rd = rs2 included), ADD puts
\* in rd the sum, SUB the difference, of the values rs1 and rs2 held before
\* the instruction, advances pc by 1 and changes no other register, no
\* memory cell and not memory_accesses; and li 2 1 / li 3 10 / add 2 3 2
\* ends with register 2 = 11, register 3 = 10, 3 instructions and 0 memory
\* accesses.
C9_AddSubReadBeforeWrite ==
    /\ \A rd \in TestRegs \ {0}, rs1 \in TestRegs, rs2 \in TestRegs :
          /\ Executed(TextADD(rd, rs1, rs2)) =>
                /\ OnlyWrote(rd)
                /\ registers[rd] = last.pre.registers[rs1] + last.pre.registers[rs2]
          /\ Executed(TextSUB(rd, rs1, rs2)) =>
                /\ OnlyWrote(rd)
                /\ registers[rd] = last.pre.registers[rs1] - last.pre.registers[rs2]
    /\ (source = ScenarioProgram /\ calls = 3 /\ pc = 3) =>
          /\ registers[2] = 11
          /\ registers[3] = 10
          /\ get_metrics(Machine).instructions = 3
          /\ get_metrics(Machine).memory_accesses = 0

\* C9's case: ADD 1 2 1, the destination also the second source, with 5 in
\* register 1 and 3 in register 2.
C9_Witness ==
    /\ Executed(TextADD(1, 2, 1))
    /\ last.pre.registers[1] = 5
    /\ last.pre.registers[2] = 3
    /\ registers[1] = 8

\* The pool entry of a raw line.
Entry(raw) == CHOOSE e \in LoaderPool : e.text = raw

\* The lines of program_text that hold an instruction.
SlotLines(program_text) == {j \in 1..Len(program_text) : Entry(program_text[j]).slot}

\* The number of instruction slots appended before line i.
SlotsBefore(program_text, i) == Cardinality({j \in SlotLines(program_text) : j < i})

\* No line of program_text other than i declares the label d.
OnlyDeclaration(program_text, i, d) ==
    \A j \in (1..Len(program_text)) \ {i} : Entry(program_text[j]).declares # <<d>>

\* No line of program_text other than i declares d in any casing.
OnlyDeclarationAnyCase(program_text, i, d) ==
    \A j \in (1..Len(program_text)) \ {i} :
        \/ Entry(program_text[j]).declares = <<>>
        \/ Upper(Entry(program_text[j]).declares[1]) # Upper(d)

\* C10: after load_program on a new instance, blank and comment-only lines
\* have taken no slot (the program is the instructions of the other lines, in
\* order), and every label declared once maps to the number of slots
\* appended before its line: in the exact table when no other line declares
\* it, in the uppercase table when no other line declares it in any casing.
\* That index is between 0 and len(program), it is len(program) exactly when
\* no instruction is on or after the label's line, and otherwise it is the
\* slot of the next appended instruction.
C10_LabelsIndexSlots ==
    (mode # "new" /\ source \in LoaderPrograms) =>
        /\ Len(program) = Cardinality(SlotLines(source))
        /\ \A i \in SlotLines(source) :
              program[SlotsBefore(source, i) + 1] = Entry(source[i]).instr
        /\ \A i \in 1..Len(source) :
              Entry(source[i]).declares # <<>> =>
                 LET d == Entry(source[i]).declares[1]
                     index == SlotsBefore(source, i)
                 IN  /\ OnlyDeclaration(source, i, d) =>
                           /\ d \in DOMAIN labels
                           /\ labels[d] = index
                           /\ 0 <= labels[d] /\ labels[d] <= Len(program)
                           /\ labels[d] = Len(program) <=>
                                 ~\E j \in SlotLines(source) : j >= i
                     /\ OnlyDeclarationAnyCase(source, i, d) =>
                           /\ Upper(d) \in DOMAIN labels_upper
                           /\ labels_upper[Upper(d)] = index

\* C10's case: a label with its instruction, then a comment-only line, then
\* a label on the last line with no instruction after it: that label has the
\* index one past the end, len(program) = 1.
C10_Witness ==
    /\ mode = "idle"
    /\ source = <<LineLabelInstr, LineComment, LineLabelOnly>>
    /\ labels[<<"a">>] = 1
    /\ Len(program) = 1

\* The last call was a step on an instruction with tokens, the first of them
\* none of the eight opcodes.
UnknownStep ==
    /\ last.op = "execute_instruction"
    /\ last.parts # <<>>
    /\ last.parts[1] \notin Opcodes

\* C11: a step on an instruction whose first token is not one of the eight
\* opcodes raises nothing, leaves every register, the memory and
\* memory_accesses as they were, advances pc by 1 and counts one instruction
\* and one cycle; the loop it was made in goes on (it leaves the loop only
\* when pc left the program).
C11_UnknownOpcodeIsNoOp ==
    UnknownStep =>
        /\ last.exc = "none"
        /\ registers = last.pre.registers
        /\ memory = last.pre.memory
        /\ memory_accesses = last.pre.memory_accesses
        /\ pc = last.pre.pc + 1
        /\ instruction_count = last.pre.instruction_count + 1
        /\ cycle_count = last.pre.cycle_count + 1
        /\ mode # "crashed"

\* C11's case: "addi 1, 1, 1" met inside execute_program with 5 in register 1
\* and a memory cell written; the loop is still running and the next
\* instruction is the one after it.
C11_Witness ==
    /\ Executed(<<"a", "d", "d", "i", " ", "1", ",", " ", "1", ",", " ", "1">>)
    /\ mode = "execute_program"
    /\ registers[1] = 5
    /\ memory = Put(EmptyDict, 4, 5)
    /\ pc = 4
    /\ instruction_count = 4
    /\ Running(Machine, program)

\* The word widths whose range the integers of the model checker can hold.
WordWidths == 1..31

\* v is in the signed w-bit range.
InWord(v, w) == -(2^(w - 1)) <= v /\ v <= 2^(w - 1) - 1

Did(op) ==
    /\ last.op = "execute_instruction"
    /\ last.exc = "none"
    /\ last.parts # <<>>
    /\ last.parts[1] = op

\* The register the last step names as its first operand.
FirstOperand == ListIndex(IntPart(last.parts, 1))

JumpedBy(o, n) ==
    Executed(TextJ(o)) =>
        /\ last.exc = "none"
        /\ pc = last.pre.pc + n
        /\ registers = last.pre.registers
        /\ memory = last.pre.memory

\* C13: `J n` with n a non-negative integer literal adds n to pc (`J 0`
\* leaves pc where it is) without looking n up as a label, also when a label
\* named n is declared (in DigitJumpPrograms it is, at index 0); the registers
\* and the memory are unchanged.
C13_DigitJumpIsRelative ==
    \A n \in JumpLiterals : JumpedBy(Dec(n), n) /\ JumpedBy(<<"0">> \o Dec(n), n)

\* C13's case: `J 2` at index 1 of a program that declares the label `2` at
\* index 0; pc is 3, not 0.
C13_Witness ==
    /\ Executed(TextJ(<<"2">>))
    /\ <<"2">> \in DOMAIN labels
    /\ labels[<<"2">>] = 0
    /\ last.pre.pc = 1
    /\ pc = 3

\* The last call was a step on a slot whose token list is empty.
EmptyStep == last.op = "execute_instruction" /\ last.parts = <<>>

\* The last step raised nothing, advanced pc by 1 and left the registers and
\* the memory as they were.
OnlyAdvanced ==
    /\ last.exc = "none"
    /\ pc = last.pre.pc + 1
    /\ registers = last.pre.registers
    /\ memory = last.pre.memory

\* C14: a step on a slot whose token list is empty advances pc by 1, changes
\* no register and no memory cell, and is counted: instruction_count and
\* cycle_count are each one more than before it.
C14_EmptySlotIsCounted ==
    EmptyStep =>
        /\ OnlyAdvanced
        /\ instruction_count = last.pre.instruction_count + 1
        /\ cycle_count = last.pre.cycle_count + 1

\* C14 as amended: a step on a slot whose token list is empty advances pc by
\* 1, changes no register and no memory cell, and is not counted: the three
\* metrics are what they were before it.
C14_EmptySlotIsNotCounted ==
    EmptyStep =>
        /\ OnlyAdvanced
        /\ get_metrics(Machine) = get_metrics(last.pre)

\* C14's case: the slot `,` at index 2, after two counted instructions and a
\* store; pc is 3 and the counters still say 2.
C14_Witness ==
    /\ Executed(<<",">>)
    /\ Len(program[3]) = 1
    /\ memory = Put(EmptyDict, 4, 5)
    /\ pc = 3
    /\ instruction_count = 2
    /\ cycle_count = 2

\* C15: when the label operand of a BEQ, JAL or J is spelled exactly as a
\* declared label, control goes to the index of that label, also when another
\* label that differs from it in letter case only is declared at another
\* index.
C15_ExactCasePriority ==
    \A o \in Casings : \A j \in Jumps(o) :
        (Executed(j) /\ o \in DOMAIN labels) =>
            /\ last.exc = "none"
            /\ pc = labels[o]

\* The call before the last one was a JAL that returned.
AfterJal ==
    /\ before_last.op = "execute_instruction"
    /\ before_last.exc = "none"
    /\ before_last.parts # <<>>
    /\ before_last.parts[1] = OpJAL

\* C16: the `J 1` that ends a subroutine entered by a JAL at index p returns
\* to the caller: pc becomes p + 1, the return address the JAL left in the
\* link register. In program4 the subroutine is `ADD 3 3 1`, `J 1` and the
\* link register is register 1; in CallPrograms the subroutine is `J 1`
\* alone.
C16_JumpOneReturns ==
    /\ (RunsProgram4 /\ Executed(TextJ(<<"1">>))) => pc = registers[1]
    /\ (source \in CallPrograms /\ Executed(TextJ(<<"1">>)) /\ AfterJal) =>
          pc = before_last.pre.pc + 1

\* Memory d differs from memory e at address a at most.
SameExceptAt(d, e, a) ==
    /\ (DOMAIN d) \ {a} = (DOMAIN e) \ {a}
    /\ \A k \in (DOMAIN d) \ {a} : d[k] = e[k]

\* C17: a LW from an address nothing was stored to since construction or the
\* last reset leaves 0 in rd, whatever rd held; no LW adds, removes or changes
\* a memory entry; a step changes the memory only when it is a SW, and then
\* at the address reg[base] + offset only. (A step that raises, and
\* load_program and execute_program's entry, leave the memory as it is, so
\* the addresses stored to since the last reset are the keys of memory.)
C17_LazyZeroFill ==
    /\ \A rd \in TestRegs, base \in TestRegs, off \in TestOffsets :
          /\ (Executed(TextLW(rd, off, base)) /\ last.exc = "none") =>
                /\ memory = last.pre.memory
                /\ (last.pre.registers[base] + off) \notin DOMAIN last.pre.memory =>
                      registers[rd] = 0
          /\ (Executed(TextSW(rd, off, base)) /\ last.exc = "none") =>
                /\ SameExceptAt(memory, last.pre.memory, last.pre.registers[base] + off)
                /\ (last.pre.registers[base] + off) \in DOMAIN memory
    /\ Did(OpLW) => memory = last.pre.memory
    /\ (last.op # "reset" /\ memory # last.pre.memory) => Did(OpSW)

\* C17's case: 5 stored at address 4, 5 in register 1 and 3 in register 2;
\* `LW 1, -8(2)` reads address -5, which holds nothing: register 1 is 0 and
\* the memory is the one entry it was.
C17_Witness ==
    /\ Executed(TextLW(1, -8, 2))
    /\ last.pre.registers[1] = 5
    /\ last.pre.registers[2] = 3
    /\ registers[1] = 0
    /\ memory = Put(EmptyDict, 4, 5)

\* execute_program() is inside its loop.
InLoop == mode = "execute_program"

\* This step is an iteration of execute_program's loop.
LoopIteration == InLoop /\ calls' = calls + 1

\* This step is the return of execute_program (no exception).
LoopReturn == InLoop /\ mode' = "idle" /\ calls' = calls

\* C18: execute_program makes an iteration only while 0 <= pc < len(program)
\* and returns only when pc is outside that range (LoopSteps); on a straight
\* program every iteration executes the slot pc points at and advances pc by
\* 1, from pc = 0 (InIndexOrder), the call returns with pc = len(program)
\* after len(program) iterations, none for the empty program
\* (ReturnsAtTheEnd), and it does return (Terminates).
LoopSteps ==
    /\ LoopIteration => Running(Machine, program)
    /\ LoopReturn => ~Running(Machine, program)

InIndexOrder ==
    (source \in StraightPrograms /\ InLoop) =>
        /\ pc = calls
        /\ last.op = "execute_program" => calls = 0
        /\ last.op = "execute_instruction" =>
              /\ last.exc = "none"
              /\ last.text = program[last.pre.pc + 1]
              /\ pc = last.pre.pc + 1

ReturnsAtTheEnd ==
    (source \in StraightPrograms /\ LoopReturn) =>
        /\ pc = Len(program)
        /\ calls = Len(program)

Terminates ==
    (source \in StraightPrograms /\ InLoop) ~> (mode = "idle" /\ pc = Len(program))

C18_ExecuteProgramRunsToTheEnd ==
    /\ [][LoopSteps]_vars
    /\ []InIndexOrder
    /\ [][ReturnsAtTheEnd]_vars
    /\ Terminates

\* C18's case: execute_program has returned from a program of five slots, an
\* unknown opcode among them, after five iterations.
C18_Witness ==
    /\ source \in UnknownPrograms
    /\ mode = "idle"
    /\ last.op = "execute_instruction"
    /\ before_last.parts # <<>>
    /\ before_last.parts[1] \notin Opcodes
    /\ calls = 5
    /\ pc = Len(program)

\* The indices the two label tables hold.
LabelIndices ==
    {labels[l] : l \in DOMAIN labels} \cup {labels_upper[l] : l \in DOMAIN labels_upper}

\* C19: pc is never negative. Every label index is in 0..len(program), and a
\* step that returns either leaves pc at least what it was (pc + 1, or `J`
\* with a digit literal) or sets it to a label index; so a loop over
\* 0 <= pc < len(program) ends with pc >= len(program), never with pc < 0.
C19_PcNeverNegative ==
    /\ pc >= 0
    /\ \A i \in LabelIndices : 0 <= i /\ i <= Len(program)
    /\ (last.op = "execute_instruction" /\ last.exc = "none") =>
          (pc >= last.pre.pc \/ pc \in LabelIndices)
    /\ (mode \in {"idle", "returned"} /\ ~Running(Machine, program)) => pc >= Len(program)

\* C19's case: `J -1` at index 2; -1 is not a digit literal, it is looked up
\* as a label, which is declared at index 0: pc goes back to 0.
C19_Witness ==
    /\ Executed(TextJ(LabelMinusOne))
    /\ last.exc = "none"
    /\ last.pre.pc = 2
    /\ labels[LabelMinusOne] = 0
    /\ pc = 0

\* run_program is in its loop or has left it.
InRunProgram == mode \in {"run_program", "returned", "crashed"}

\* C20: run_program makes at most max_instructions steps, whatever the
\* program, and it prints 'Execution stopped after ... instructions (possible
\* infinite loop)' only when the machine was still running
\* (0 <= pc < len(program)) when the budget ran out, never for a program that
\* halted on its own.
C20_BudgetReportedOnlyWhenRunning ==
    /\ InRunProgram => calls <= max_instructions
    /\ (mode = "returned" /\ reported) => Running(Machine, program)

\* C20, the part that holds: run_program makes at most max_instructions
\* steps, and instruction_limit is what is left of them.
C20_AtMostBudgetSteps ==
    InRunProgram =>
        /\ calls <= max_instructions
        /\ mode # "crashed" => instruction_limit = max_instructions - calls

====
